---- MODULE Spec2Model ----
(***************************************************************************)
(* A model of the Hyperband tuner of cdgreenidge/hyperband-tutorial:       *)
(* the sequential variant (src/hyperband.py) and the Dask variant          *)
(* (src/hyperband_distributed.py).                                         *)
(*                                                                         *)
(* Numbers.  The code computes with Python floats.  The model computes     *)
(* with exact rationals (num/den, den > 0).  For the arguments used here    *)
(* the floor/ceil results of the float computation of s_max, n, k_i and    *)
(* the rung count agree with the exact ones.  n_i = floor(n * eta**-i) is  *)
(* the exception: eta**-i is a rounded reciprocal, and where n * eta**-i   *)
(* stands for an integer the float product can fall just below it.  RungN  *)
(* computes n_i as the IEEE double arithmetic of the code does.            *)
(***************************************************************************)
EXTENDS Integers, Sequences, FiniteSets, TLC

VARIABLES
    variant,        \* which module the caller uses: "seq", "dist", or "topk" (a direct _top_k call)
    R,              \* constructor argument R
    eta,            \* constructor argument eta, a rational [num, den]
    sampler,        \* get_hyperparameter_configuration: one of Samplers
    evaluator,      \* run_then_return_val_loss: "quad" ((c - target)^2), "res" or "noisy"
    target,         \* the minimiser of the "quad" evaluator
    nthreads,       \* worker slots of the Dask pool
    phase,          \* "new", "ready", "running", "returned", "raised"
    error,          \* the exception that ended construction or run(), or "none"
    s_max,          \* self.s_max
    B,              \* self.B
    result,         \* what run() returned, or None
    pc,             \* position of the sequential generator
    s,              \* sequential: bracket index of the outer loop
    i,              \* sequential: rung index of the inner loop
    n,              \* sequential: the bracket's n
    r,              \* sequential: the bracket's r
    T,              \* sequential: the surviving configurations
    L,              \* sequential: losses of the rung evaluated so far
    losses,         \* sequential: losses of the survivors of the last cull
    best_config,    \* sequential: best ConfigEvaluation so far, or None
    yielded,        \* sequential: the values the generator has yielded
    futures,        \* distributed: the bracket tasks, in submission order
    slots,          \* distributed: the tasks that hold a worker slot
    topk_args,      \* direct call: [configs, losses, k]
    topk_ret,       \* direct call: what _top_k returned or raised, or None
    hist            \* history: sampler calls, evaluator calls, sampled configurations,
                    \* bracket winners, resource levels, bracket tasks in order of completion

vars == <<variant, R, eta, sampler, evaluator, target, nthreads, phase, error,
          s_max, B, result, pc, s, i, n, r, T, L, losses, best_config, yielded,
          futures, slots, topk_args, topk_ret, hist>>

-----------------------------------------------------------------------------
(* Bounds of the model *)

MaxR == 3          \* sequential variant: R ranges over 0..MaxR
MaxDistR == 2      \* distributed variant: R ranges over 0..MaxDistR
MaxConfig == 2     \* configurations are 0..MaxConfig
MaxLoss == 2       \* the "noisy" evaluator returns 0..MaxLoss
MaxThreads == 2    \* the pool has 1..MaxThreads slots
MaxLen == 3        \* direct _top_k calls take sequences of length 0..MaxLen

(* The schedule of the demo *)
DemoR == 81
DemoEta == 3

None == [none |-> TRUE]

Configs == 0..MaxConfig
NoisyLosses == 0..MaxLoss

-----------------------------------------------------------------------------
(* Exact rational arithmetic standing for the float arithmetic of the code *)

Rat(a, b) == [num |-> a, den |-> b]

\* the greatest common divisor of a >= 0 and b > 0
Gcd(a, b) ==
    LET D == {d \in 1..b : a % d = 0 /\ b % d = 0}
    IN  CHOOSE d \in D : \A e \in D : e <= d

\* a/b in lowest terms (a >= 0, b > 0)
Norm(a, b) == Rat(a \div Gcd(a, b), b \div Gcd(a, b))

RECURSIVE IPow(_, _)
IPow(b, e) == IF e = 0 THEN 1 ELSE b * IPow(b, e - 1)

FloorDiv(a, b) == a \div b
CeilDiv(a, b) == -((-a) \div b)
Max(a, b) == IF a >= b THEN a ELSE b

\* the greatest e >= from with base**e <= x, for base > 1
RECURSIVE LogUp(_, _, _)
LogUp(x, base, from) ==
    IF IPow(base.num, from + 1) <= x * IPow(base.den, from + 1)
    THEN LogUp(x, base, from + 1) ELSE from

\* the greatest e <= from with base**e >= x, for base < 1
RECURSIVE LogDown(_, _, _)
LogDown(x, base, from) ==
    IF x * IPow(base.num, -from) <= IPow(base.den, -from)
    THEN from ELSE LogDown(x, base, from - 1)

\* math.floor(math.log(x, base)) for an integer x >= 1 and base > 0, base # 1
FloorLog(x, base) ==
    IF base.num > base.den THEN LogUp(x, base, 0) ELSE LogDown(x, base, 0)

-----------------------------------------------------------------------------
(* _top_k *)

\* tuple comparison of (loss, config) pairs, as heapq compares them
PairLeq(a, b) == a[1] < b[1] \/ (a[1] = b[1] /\ a[2] <= b[2])

Min(a, b) == IF a <= b THEN a ELSE b

\* zip(losses, configs): pairs up to the shorter length
Zip(ls, cs) == [j \in 1..Min(Len(ls), Len(cs)) |-> <<ls[j], cs[j]>>]

PairLess(a, b) == PairLeq(a, b) /\ a # b

\* the place of ps[j] in sorted(ps): after every smaller pair and every equal earlier one
Place(ps, j) ==
    1 + Cardinality({x \in 1..Len(ps) : PairLess(ps[x], ps[j]) \/ (ps[x] = ps[j] /\ x < j)})

\* sorted(ps)
Sorted(ps) == [p \in 1..Len(ps) |-> ps[CHOOSE j \in 1..Len(ps) : Place(ps, j) = p]]

\* mutant: heapq.nlargest in place of heapq.nsmallest
NLargest(k, ps) ==
    [j \in 1..Min(Max(k, 0), Len(ps)) |-> Sorted(ps)[Len(ps) + 1 - j]]

\* heapq.nsmallest(k, pairs) == sorted(pairs)[:k]
NSmallest(k, ps) == SubSeq(Sorted(ps), 1, Min(Max(k, 0), Len(ps)))

\* mutant: the two tuples of the unzip taken in the wrong order
TopKSwapped(configs, ls, k) ==
    IF k < 1 THEN [err |-> "AssertionError", configs |-> <<>>, losses |-> <<>>]
    ELSE LET best == NSmallest(k, Zip(ls, configs))
         IN  IF best = <<>>
             THEN [err |-> "ValueError", configs |-> <<>>, losses |-> <<>>]
             ELSE [err |-> "none",
                   configs |-> [j \in 1..Len(best) |-> best[j][1]],
                   losses |-> [j \in 1..Len(best) |-> best[j][2]]]

\* mutant: the assertion on k left out
TopKNoAssert(configs, ls, k) ==
    LET best == NSmallest(k, Zip(ls, configs))
    IN  IF best = <<>>
        THEN [err |-> "ValueError", configs |-> <<>>, losses |-> <<>>]
        ELSE [err |-> "none",
              configs |-> [j \in 1..Len(best) |-> best[j][2]],
              losses |-> [j \in 1..Len(best) |-> best[j][1]]]

\* mutant: every pair is kept, whatever k
TopKKeepAll(configs, ls, k) ==
    IF k < 1 THEN [err |-> "AssertionError", configs |-> <<>>, losses |-> <<>>]
    ELSE LET best == Sorted(Zip(ls, configs))
         IN  IF best = <<>>
             THEN [err |-> "ValueError", configs |-> <<>>, losses |-> <<>>]
             ELSE [err |-> "none",
                   configs |-> [j \in 1..Len(best) |-> best[j][2]],
                   losses |-> [j \in 1..Len(best) |-> best[j][1]]]

\* _top_k(configs, losses, k): [err, configs, losses]
top_k(configs, ls, k) ==
    IF k < 1 THEN [err |-> "AssertionError", configs |-> <<>>, losses |-> <<>>]
    ELSE LET best == NSmallest(k, Zip(ls, configs))
         IN  IF best = <<>>
             THEN [err |-> "ValueError", configs |-> <<>>, losses |-> <<>>]
             ELSE [err |-> "none",
                   configs |-> [j \in 1..Len(best) |-> best[j][2]],
                   losses |-> [j \in 1..Len(best) |-> best[j][1]]]

-----------------------------------------------------------------------------
(* The collaborators: what a call may return *)

ConfigEvaluation(c, l) == [config |-> c, loss |-> l]

\* mutant: the last survivor in place of the first
WinnerLast(T_, losses_) == ConfigEvaluation(T_[Len(T_)], losses_[Len(losses_)])

\* ConfigEvaluation(T[0], losses[0])
Winner(T_, losses_) == ConfigEvaluation(T_[1], losses_[1])

\* get_hyperparameter_configuration(count)
\* A sampler is a function of the count alone.  "full": count configurations
\* c_j = (a*count + b*j) mod |Configs| (b = 0: one configuration repeated, b = 1:
\* ascending, b = 2: a different order); "empty": an empty sequence whatever the count
Samplers ==
    {[kind |-> "full", a |-> a, b |-> b] : a \in 0..1, b \in 0..2}
        \cup {[kind |-> "empty", a |-> 0, b |-> 0]}

Sample(smp, count) ==
    IF smp.kind = "full"
    THEN [j \in 1..count |-> (smp.a * count + smp.b * j) % (MaxConfig + 1)]
    ELSE <<>>

\* run_then_return_val_loss(c, resource): the values a call may return.
\* "quad" and "res" are pure functions of their arguments, "res" one that depends on
\* the resource; "noisy" may return any loss
Loss(kind, c, resource) ==
    IF kind = "quad" THEN {(c - target) * (c - target)}
    ELSE IF kind = "res"
    THEN {(c + FloorDiv(resource.num, resource.den)) % (MaxLoss + 1)}
    ELSE NoisyLosses

-----------------------------------------------------------------------------
(* Hyperband.__init__ and the bracket schedule *)

MaxEta == 3

Etas == {Rat(0, 1), Rat(1, 2), Rat(1, 1)} \cup {Rat(e, 1) : e \in 2..MaxEta}

\* the sequential variant, with the deterministic evaluator, is also run with an eta
\* that is not an integer
SeqEtas == Etas \cup {Rat(3, 2)}

InvalidR(R_) == R_ < 1
InvalidEta(eta_) == eta_.num <= 0

\* math.log(R, eta) divides by log(eta)
LogDividesByZero(eta_) == eta_ = Rat(1, 1)

\* s_max = floor(log(R, eta))
Smax(R_, eta_) == FloorLog(R_, eta_)
Budget(smax, R_) == (smax + 1) * R_

\* mutant: floor in place of ceil
BracketNFloor(B_, R_, eta_, s_) ==
    FloorDiv(B_ * IPow(eta_.num, s_), IPow(eta_.den, s_) * R_ * (s_ + 1))

\* n = ceil((B * eta**s) / (R * (s + 1)))
BracketN(B_, R_, eta_, s_) ==
    CeilDiv(B_ * IPow(eta_.num, s_), IPow(eta_.den, s_) * R_ * (s_ + 1))
\* r = R * eta**-s
BracketR(R_, eta_, s_) == Norm(R_ * IPow(eta_.den, s_), IPow(eta_.num, s_))

RECURSIVE IsPow2(_)
IsPow2(q) == q = 1 \/ (q % 2 = 0 /\ IsPow2(q \div 2))

\* the number of binary digits of x >= 0
RECURSIVE BitLength(_)
BitLength(x) == IF x = 0 THEN 0 ELSE 1 + BitLength(x \div 2)

\* 2**k mod q
RECURSIVE PowMod2(_, _)
PowMod2(k, q) == IF k = 0 THEN 1 % q ELSE (2 * PowMod2(k - 1, q)) % q

\* floor(n / eta**i) of exact arithmetic
ExactRungN(n_, eta_, i_) == FloorDiv(n_ * IPow(eta_.den, i_), IPow(eta_.num, i_))

\* 1 where the double n * eta**-i is below the integer n / eta**i, else 0.
\* With q = eta.num**i not a power of two, eta**-i is eta.den**i times the double
\* nearest to 1/q, which has 53 significant bits: (2**K - rem) / (q * 2**K) when it
\* is rounded down, K = 52 + BitLength(q), rem = 2**K mod q.  The product with n
\* stands for the integer m = n * eta.den**i / q and is exactly m - m*rem/2**K; it
\* rounds to the double below m when that is more than half a unit in the last
\* place below m, 2**(e - 54) with 2**(e-1) < m <= 2**e.
FloatShortfall(n_, eta_, i_) ==
    LET q == IPow(eta_.num, i_)
        p == n_ * IPow(eta_.den, i_)
    IN  IF n_ < 1 \/ IsPow2(q) \/ p % q # 0 THEN 0
        ELSE LET m == p \div q
                 c == BitLength(q)
                 rem == PowMod2(52 + c, q)
                 e == BitLength(m - 1)
             IN  IF 2 * rem < q /\ m * rem > IPow(2, c + e - 2) THEN 1 ELSE 0

\* mutant: eta**i in place of eta**-i
RungNGrowing(n_, eta_, i_) == FloorDiv(n_ * IPow(eta_.num, i_), IPow(eta_.den, i_))

\* n_i = math.floor(n * (eta ** -i))
RungN(n_, eta_, i_) == ExactRungN(n_, eta_, i_) - FloatShortfall(n_, eta_, i_)
\* r_i = r * eta**i
RungR(r_, eta_, i_) == Norm(r_.num * IPow(eta_.num, i_), r_.den * IPow(eta_.den, i_))
\* mutant: the max(1, ...) left out
SurvivorCountNoMax(n_i, eta_) == FloorDiv(n_i * eta_.den, eta_.num)

\* max(1, floor(n_i / eta))
SurvivorCount(n_i, eta_) == Max(1, FloorDiv(n_i * eta_.den, eta_.num))

Hist0 == [samplerCalls |-> 0, evalCalls |-> 0, sampled |-> {}, winners |-> <<>>,
          resources |-> {}, completed |-> <<>>]

SeqIdle ==
    /\ pc = "idle" /\ s = 0 /\ i = 0 /\ n = 0 /\ r = Rat(0, 1)
    /\ T = <<>> /\ L = <<>> /\ losses = <<>>
    /\ best_config = None /\ yielded = <<>>

DistIdle == futures = <<>> /\ slots = {}

TopKIdle == topk_args = None /\ topk_ret = None

Init ==
    /\ variant \in {"seq", "dist"}
    /\ R \in 0..(IF variant = "seq" THEN MaxR ELSE MaxDistR)
    /\ evaluator \in {"quad", "res", "noisy"}
    /\ eta \in (IF variant = "seq" /\ evaluator = "quad" THEN SeqEtas ELSE Etas)
    /\ sampler \in Samplers
    /\ target \in (IF evaluator = "quad" THEN Configs ELSE {0})
    /\ nthreads \in (IF variant = "dist" THEN 1..MaxThreads ELSE {1})
    /\ phase = "new" /\ error = "none"
    /\ s_max = 0 /\ B = 0 /\ result = None
    /\ SeqIdle /\ DistIdle /\ TopKIdle
    /\ hist = Hist0

seqVars == <<pc, s, i, n, r, T, L, losses, best_config, yielded>>
distVars == <<futures, slots>>
topkVars == <<topk_args, topk_ret>>
argVars == <<variant, R, eta, sampler, evaluator, target, nthreads>>

Raise(e) == phase' = "raised" /\ error' = e /\ result' = None

Construct ==
    /\ phase = "new"
    /\ variant \in {"seq", "dist"}
    /\ IF InvalidR(R) \/ InvalidEta(eta)
       THEN Raise("ValueError") /\ UNCHANGED <<s_max, B>>
       ELSE IF LogDividesByZero(eta)
       THEN Raise("ZeroDivisionError") /\ UNCHANGED <<s_max, B>>
       ELSE /\ s_max' = Smax(R, eta)
            /\ B' = Budget(s_max', R)
            /\ phase' = "ready"
            /\ UNCHANGED <<error, result>>
    /\ UNCHANGED <<argVars, seqVars, distVars, topkVars, hist>>

-----------------------------------------------------------------------------
(* Sequential variant: run() draining step_generator() *)

\* run() creates the generator: best_config = None, the outer loop starts at s_max
SeqRun ==
    /\ variant = "seq" /\ phase = "ready"
    /\ phase' = "running"
    /\ pc' = "bracket" /\ s' = s_max /\ best_config' = None
    /\ UNCHANGED <<argVars, error, s_max, B, result, i, n, r, T, L, losses, yielded,
                   distVars, topkVars, hist>>

\* head of the outer loop: n, r, T = sampler(n)
SeqSample ==
    /\ variant = "seq" /\ phase = "running" /\ pc = "bracket" /\ s >= 0
    /\ n' = BracketN(B, R, eta, s)
    /\ r' = BracketR(R, eta, s)
    /\ T' = Sample(sampler, n')
    /\ hist' = [hist EXCEPT !.samplerCalls = @ + 1,
                            !.sampled = @ \cup {T'[j] : j \in 1..Len(T')}]
    /\ i' = 0 /\ L' = <<>> /\ pc' = "rung"
    /\ UNCHANGED <<argVars, phase, error, s_max, B, result, s, losses, best_config,
                   yielded, distVars, topkVars>>

\* one element of the list comprehension L = [evaluator(t, r_i) for t in T]
SeqEval ==
    /\ variant = "seq" /\ phase = "running" /\ pc = "rung" /\ Len(L) < Len(T)
    /\ LET r_i == RungR(r, eta, i)
       IN  /\ \E l \in Loss(evaluator, T[Len(L) + 1], r_i) : L' = Append(L, l)
           /\ hist' = [hist EXCEPT !.evalCalls = @ + 1, !.resources = @ \cup {r_i}]
    /\ UNCHANGED <<argVars, phase, error, s_max, B, result, pc, s, i, n, r, T, losses,
                   best_config, yielded, distVars, topkVars>>

\* T, losses = _top_k(T, L, max(1, floor(n_i / eta))), then the next rung
SeqCull ==
    /\ variant = "seq" /\ phase = "running" /\ pc = "rung" /\ Len(L) = Len(T)
    /\ LET n_i == RungN(n, eta, i)
           ret == top_k(T, L, SurvivorCount(n_i, eta))
       IN  IF ret.err # "none"
           THEN /\ Raise(ret.err)
                /\ pc' = "closed"
                /\ UNCHANGED <<T, losses, L, i>>
           ELSE /\ T' = ret.configs
                /\ losses' = ret.losses
                /\ L' = <<>>
                /\ i' = i + 1
                /\ pc' = IF i = s THEN "yield" ELSE "rung"
                /\ UNCHANGED <<phase, error, result>>
    /\ UNCHANGED <<argVars, s_max, B, s, n, r, best_config, yielded, distVars,
                   topkVars, hist>>

\* mutant: the comparison of the replacement test turned round
BetterIfHigher(l, best) == best = None \/ l > best.loss

\* mutant: the replacement test not strict
BetterOrEqual(l, best) == best = None \/ l <= best.loss

\* the replacement test of step_generator
Better(l, best) == best = None \/ l < best.loss

\* best_config update and yield; run() discards the value and resumes the generator
SeqYield ==
    /\ variant = "seq" /\ phase = "running" /\ pc = "yield"
    /\ best_config' = IF Better(losses[1], best_config)
                      THEN Winner(T, losses) ELSE best_config
    /\ yielded' = Append(yielded, best_config')
    /\ hist' = [hist EXCEPT !.winners = Append(@, Winner(T, losses))]
    /\ s' = s - 1
    /\ pc' = "bracket"
    /\ UNCHANGED <<argVars, phase, error, s_max, B, result, i, n, r, T, L, losses,
                   distVars, topkVars>>

\* the generator is exhausted: run() returns the last value or raises RuntimeError
SeqReturn ==
    /\ variant = "seq" /\ phase = "running" /\ pc = "bracket" /\ s < 0
    /\ pc' = "closed"
    /\ IF yielded = <<>>
       THEN Raise("RuntimeError")
       ELSE /\ phase' = "returned"
            /\ result' = yielded[Len(yielded)]
            /\ UNCHANGED error
    /\ UNCHANGED <<argVars, s_max, B, s, i, n, r, T, L, losses, best_config, yielded,
                   distVars, topkVars, hist>>

-----------------------------------------------------------------------------
(* Distributed variant: run() submits one successive_halving task per bracket *)

\* a successive_halving task: its arguments, its locals (rungs is the local s), and
\* history: evaluator and _top_k calls made, whether an evaluation of the current rung
\* completed before one submitted ahead of it
BracketTask(s_, n_, r_) ==
    [s |-> s_, n |-> n_, r |-> r_, pc |-> "pending", T |-> <<>>, L |-> <<>>,
     losses |-> <<>>, rungs |-> 0, i |-> 0, evals |-> <<>>, result |-> None,
     err |-> "none", evalCalls |-> 0, topkCalls |-> 0, overtaken |-> FALSE]

\* mutant: one rung more than floor(log(n, eta)) + 1
RungCountOneMore(n_, eta_) == FloorLog(n_, eta_) + 1

\* s = math.floor(math.log(n, eta)), the last rung index of successive_halving
RungCount(n_, eta_) == FloorLog(n_, eta_)

EvalTask(rung) == [st |-> "pending", loss |-> 0, rung |-> rung]

FreeSlot == Cardinality(slots) < nthreads

DistRun ==
    /\ variant = "dist" /\ phase = "ready"
    /\ phase' = "running"
    /\ pc' = "submit" /\ s' = s_max
    /\ UNCHANGED <<argVars, error, s_max, B, result, i, n, r, T, L, losses, best_config,
                   yielded, distVars, topkVars, hist>>

\* one iteration of the loop of run(): n, r, futures.append(client.submit(...))
DistSubmit ==
    /\ variant = "dist" /\ phase = "running" /\ pc = "submit" /\ s >= 0
    /\ n' = BracketN(B, R, eta, s)
    /\ r' = BracketR(R, eta, s)
    /\ futures' = Append(futures, BracketTask(s, n', r'))
    /\ s' = s - 1
    /\ UNCHANGED <<argVars, phase, error, s_max, B, result, pc, i, T, L, losses,
                   best_config, yielded, slots, topkVars, hist>>

distRest == <<argVars, phase, error, s_max, B, result, seqVars, topkVars>>

\* a worker thread takes the bracket task: T = sampler(n), s = floor(log(n, eta))
TaskStart(b) ==
    /\ futures[b].pc = "pending" /\ FreeSlot
    /\ slots' = slots \cup {<<b, 0>>}
    /\ LET cs == Sample(sampler, futures[b].n)
       IN  /\ futures' = [futures EXCEPT ![b].pc = "loop", ![b].T = cs, ![b].i = 0,
                                         ![b].rungs = RungCount(futures[b].n, eta)]
           /\ hist' = [hist EXCEPT !.samplerCalls = @ + 1,
                                   !.sampled = @ \cup {cs[j] : j \in 1..Len(cs)}]
    /\ UNCHANGED distRest

\* mutant: the task keeps its slot while it waits for its evaluations
SecedeKeepsSlot(b) ==
    /\ futures[b].pc = "loop"
    /\ futures' = [futures EXCEPT ![b].pc = "seceded"]
    /\ UNCHANGED <<distRest, slots, hist>>

\* dask.distributed.secede(): the task's thread leaves the pool
Secede(b) ==
    /\ futures[b].pc = "loop"
    /\ slots' = slots \ {<<b, 0>>}
    /\ futures' = [futures EXCEPT ![b].pc = "seceded"]
    /\ UNCHANGED <<distRest, hist>>

\* client.map(lambda t: evaluator(t, r_i), T): one task per configuration
Map(b) ==
    /\ futures[b].pc = "seceded"
    /\ futures' = [futures EXCEPT ![b].pc = "gather",
                                  ![b].evals = [j \in 1..Len(futures[b].T) |-> EvalTask(futures[b].i)]]
    /\ UNCHANGED <<distRest, slots, hist>>

EvalStart(b, j) ==
    /\ futures[b].evals[j].st = "pending" /\ FreeSlot
    /\ slots' = slots \cup {<<b, j>>}
    /\ futures' = [futures EXCEPT ![b].evals[j].st = "running", ![b].evalCalls = @ + 1]
    /\ hist' = [hist EXCEPT !.evalCalls = @ + 1,
                            !.resources = @ \cup {RungR(futures[b].r, eta, futures[b].i)}]
    /\ UNCHANGED distRest

EvalFinish(b, j) ==
    /\ futures[b].evals[j].st = "running"
    /\ slots' = slots \ {<<b, j>>}
    /\ \E l \in Loss(evaluator, futures[b].T[j],
                     RungR(futures[b].r, eta, futures[b].i)) :
          futures' = [futures EXCEPT
                         ![b].evals[j].st = "done", ![b].evals[j].loss = l,
                         ![b].overtaken = @ \/ \E x \in 1..(j - 1) :
                                                   futures[b].evals[x].st # "done"]
    /\ UNCHANGED <<distRest, hist>>

\* mutant: the gather returns with the first evaluation that completes
GatheredAny(evals) == evals = <<>> \/ \E j \in 1..Len(evals) : evals[j].st = "done"

\* what client.gather(futures) waits for
Gathered(evals) == \A j \in 1..Len(evals) : evals[j].st = "done"

\* mutant: the results in the reverse order of the futures
GatherLossesReversed(evals) ==
    [j \in 1..Len(evals) |-> evals[Len(evals) + 1 - j].loss]

\* the value of client.gather(futures): the results in the order of the futures
GatherLosses(evals) == [j \in 1..Len(evals) |-> evals[j].loss]

\* L = client.gather(futures)
Gather(b) ==
    /\ futures[b].pc = "gather" /\ Gathered(futures[b].evals)
    /\ futures' = [futures EXCEPT ![b].pc = "rejoin",
                                  ![b].L = GatherLosses(futures[b].evals)]
    /\ UNCHANGED <<distRest, slots, hist>>

\* mutant: the task goes on to the cull without a slot
RejoinWithoutSlot(b) ==
    /\ futures[b].pc = "rejoin"
    /\ futures' = [futures EXCEPT ![b].pc = "cull"]
    /\ UNCHANGED <<distRest, slots, hist>>

\* dask.distributed.rejoin(): blocks until a slot of the pool is free
Rejoin(b) ==
    /\ futures[b].pc = "rejoin" /\ FreeSlot
    /\ slots' = slots \cup {<<b, 0>>}
    /\ futures' = [futures EXCEPT ![b].pc = "cull"]
    /\ UNCHANGED <<distRest, hist>>

\* T, losses = _top_k(...); the next rung, or return ConfigEvaluation(T[0], losses[0])
Cull(b) ==
    /\ futures[b].pc = "cull"
    /\ LET f == futures[b]
           ret == top_k(f.T, f.L, SurvivorCount(RungN(f.n, eta, f.i), eta))
       IN  IF ret.err # "none"
           THEN /\ futures' = [futures EXCEPT ![b].pc = "erred", ![b].err = ret.err,
                                   ![b].evals = <<>>, ![b].overtaken = FALSE,
                                   ![b].topkCalls = @ + 1]
                /\ slots' = slots \ {<<b, 0>>}
                /\ hist' = [hist EXCEPT !.completed = Append(@, b)]
           ELSE IF f.i = f.rungs
           THEN /\ futures' = [futures EXCEPT ![b].pc = "finished", ![b].evals = <<>>,
                                   ![b].T = ret.configs, ![b].losses = ret.losses,
                                   ![b].L = <<>>, ![b].overtaken = FALSE,
                                   ![b].topkCalls = @ + 1,
                                   ![b].result = Winner(ret.configs, ret.losses)]
                /\ slots' = slots \ {<<b, 0>>}
                /\ hist' = [hist EXCEPT !.completed = Append(@, b)]
           ELSE /\ futures' = [futures EXCEPT ![b].pc = "loop", ![b].evals = <<>>,
                                   ![b].T = ret.configs, ![b].losses = ret.losses,
                                   ![b].L = <<>>, ![b].i = f.i + 1,
                                   ![b].overtaken = FALSE, ![b].topkCalls = @ + 1]
                /\ UNCHANGED <<slots, hist>>
    /\ UNCHANGED distRest

\* min(results, key=lambda x: x.loss): the first result with the least loss
RECURSIVE MinByLoss(_)
MinByLoss(rs) ==
    IF Len(rs) = 1 THEN rs[1]
    ELSE LET m == MinByLoss(SubSeq(rs, 1, Len(rs) - 1))
         IN  IF rs[Len(rs)].loss < m.loss THEN rs[Len(rs)] ELSE m

Erred == {b \in 1..Len(futures) : futures[b].pc = "erred"}
AllFinished == \A b \in 1..Len(futures) : futures[b].pc = "finished"

\* mutant: the results in the order in which the bracket tasks completed
GatherAsCompleted(fs) == [k \in 1..Len(fs) |-> fs[hist.completed[k]].result]

\* the value of self.client.gather(futures): the results in the order of the futures
GatherBrackets(fs) == [b \in 1..Len(fs) |-> fs[b].result]

\* return min(self.client.gather(futures), key=...): gather raises a task's exception
DistGather ==
    /\ variant = "dist" /\ phase = "running" /\ pc = "submit" /\ s < 0
    /\ \/ \E b \in Erred : Raise(futures[b].err)
       \/ /\ AllFinished /\ futures = <<>>
          /\ Raise("ValueError")
       \/ /\ AllFinished /\ futures # <<>>
          /\ phase' = "returned"
          /\ result' = MinByLoss(GatherBrackets(futures))
          /\ UNCHANGED error
    /\ pc' = "closed"
    /\ UNCHANGED <<argVars, s_max, B, s, i, n, r, T, L, losses, best_config, yielded,
                   distVars, topkVars, hist>>

-----------------------------------------------------------------------------
(* A direct call of _top_k *)

InitTopK ==
    /\ variant = "topk"
    /\ R = 1 /\ eta = Rat(2, 1) /\ sampler = [kind |-> "empty", a |-> 0, b |-> 0] /\ evaluator = "quad" /\ target = 0
    /\ nthreads = 1 /\ phase = "new" /\ error = "none"
    /\ s_max = 0 /\ B = 0 /\ result = None
    /\ SeqIdle /\ DistIdle
    /\ hist = Hist0
    /\ \E len \in 0..MaxLen :
          \E cs \in [1..len -> Configs], ls \in [1..len -> NoisyLosses], k \in -1..(MaxLen + 1) :
             topk_args = [configs |-> cs, losses |-> ls, k |-> k]
    /\ topk_ret = None

CallTopK ==
    /\ variant = "topk" /\ topk_ret = None
    /\ topk_ret' = top_k(topk_args.configs, topk_args.losses, topk_args.k)
    /\ UNCHANGED <<argVars, phase, error, s_max, B, result, seqVars, distVars,
                   topk_args, hist>>

-----------------------------------------------------------------------------

Brackets == 1..Len(futures)
Evals(b) == 1..Len(futures[b].evals)

Next ==
    \/ Construct
    \/ SeqRun \/ SeqSample \/ SeqEval \/ SeqCull \/ SeqYield \/ SeqReturn
    \/ DistRun \/ DistSubmit \/ DistGather
    \/ \E b \in Brackets : TaskStart(b)
    \/ \E b \in Brackets : Secede(b)
    \/ \E b \in Brackets : Map(b)
    \/ \E b \in Brackets : \E j \in Evals(b) : EvalStart(b, j)
    \/ \E b \in Brackets : \E j \in Evals(b) : EvalFinish(b, j)
    \/ \E b \in Brackets : Gather(b)
    \/ \E b \in Brackets : Rejoin(b)
    \/ \E b \in Brackets : Cull(b)

Spec == Init /\ [][Next]_vars

SpecTopK == InitTopK /\ [][CallTopK]_vars

\* every enabled step is eventually taken: the loops of run() advance, and the
\* Dask scheduler runs every task that has a slot to run in
FairSpec == Spec /\ WF_vars(Next)

\* the arguments of the schedules: R up to the demo's with the etas of the runs, and
\* R = 7**2 and R = 7**4 with eta = 7, where n * eta**-i is not exact in doubles
PlanArgs ==
    ((0..DemoR) \X (Etas \cup {Rat(DemoEta, 1)}))
        \cup {<<IPow(7, 2), Rat(7, 1)>>, <<IPow(7, 4), Rat(7, 1)>>}

\* the schedule alone: the submission loop of run(), no task scheduled yet
InitPlan ==
    /\ variant = "dist"
    /\ \E a \in PlanArgs : R = a[1] /\ eta = a[2]
    /\ sampler = [kind |-> "empty", a |-> 0, b |-> 0]
    /\ evaluator = "quad" /\ target = 0 /\ nthreads = 1
    /\ phase = "new" /\ error = "none"
    /\ s_max = 0 /\ B = 0 /\ result = None
    /\ SeqIdle /\ DistIdle /\ TopKIdle
    /\ hist = Hist0

SpecPlan == InitPlan /\ [][Construct \/ DistRun \/ DistSubmit]_vars

-----------------------------------------------------------------------------
(* Properties *)

Range(f) == {f[x] : x \in DOMAIN f}

\* the (configuration, loss) pairs the brackets returned
BracketWinners ==
    IF variant = "seq" THEN Range(hist.winners)
    ELSE {futures[b].result : b \in {c \in Brackets : futures[c].pc = "finished"}}

\* run() has ended, by a return or by an exception
RunEnded == pc = "closed"

\* C1: when the sampler delivers and the schedule has a bracket, run() returns, and
\* what it returns is a bracket winner whose loss no bracket winner undercuts
\* (sequential and distributed variant).
C1_ReturnsBestWinner ==
    (RunEnded /\ s_max >= 0 /\ sampler.kind = "full") =>
        /\ phase = "returned"
        /\ Cardinality(BracketWinners) >= 1
        /\ result \in BracketWinners
        /\ \A w \in BracketWinners : result.loss <= w.loss

C1_Witness ==
    /\ variant = "dist" /\ phase = "returned"
    /\ Cardinality(BracketWinners) >= 2
    /\ \E w \in BracketWinners : w.loss > result.loss

Quad(c) == (c - target) * (c - target)
MinQuad(cs) == CHOOSE m \in {Quad(c) : c \in cs} : \A c \in cs : m <= Quad(c)

\* the populations under culling: <<n, surviving T>> of every bracket in progress
Populations ==
    IF variant = "seq"
    THEN IF pc \in {"rung", "yield"} THEN {<<n, T>>} ELSE {}
    ELSE {<<futures[b].n, futures[b].T>> :
             b \in {c \in Brackets : futures[c].pc \notin {"pending", "erred"}}}

\* C2: with the evaluator loss = (config - target)^2 the least loss of a bracket's
\* sample survives every cull, and run() returns a sampled configuration with its
\* exact loss, which is the least over all configurations sampled in all brackets.
C2_QuadraticFindsBest ==
    evaluator = "quad" =>
        /\ \A p \in Populations :
              p[2] # <<>> => MinQuad(Range(p[2])) = MinQuad(Range(Sample(sampler, p[1])))
        /\ phase = "returned" =>
              /\ result.config \in hist.sampled
              /\ result.loss = Quad(result.config)
              /\ result.loss = MinQuad(hist.sampled)

C2_Witness ==
    /\ evaluator = "quad" /\ phase = "returned"
    /\ hist.samplerCalls >= 2
    /\ \E c \in hist.sampled : Quad(c) > result.loss

ValidArgs == R >= 1 /\ eta.num > 0
ConstructFailed == phase = "raised" /\ pc = "idle"

\* C3 (as claimed): construction fails with the InvalidParameter error (ValueError)
\* exactly when R < 1 or eta <= 0, before any sampler or evaluator call and with no
\* schedule; every R >= 1, eta > 0 is accepted.
C3_Claim ==
    phase # "new" =>
        /\ ~ValidArgs =>
              /\ ConstructFailed /\ error = "ValueError"
              /\ hist.samplerCalls = 0 /\ hist.evalCalls = 0
              /\ s_max = 0 /\ B = 0
        /\ ValidArgs => ~ConstructFailed

\* C4 (as claimed): a run that performed no evaluation ends in the NoResult error
\* (RuntimeError), never in a result or in another error.
C4_Claim ==
    (RunEnded /\ hist.evalCalls = 0) => (phase = "raised" /\ error = "RuntimeError")

-----------------------------------------------------------------------------
(* Properties of _top_k, over direct calls *)

Called == topk_ret # None
ArgLen == Len(topk_args.configs)
Perms(m) == {p \in [1..m -> 1..m] : \A x, y \in 1..m : x # y => p[x] # p[y]}

\* ret is the first k entries of some full ascending sort (by loss) of the input pairs
IsLowestK(ret, k) ==
    /\ Len(ret.configs) = k /\ Len(ret.losses) = k
    /\ \E p \in Perms(ArgLen) :
          /\ \A x \in 1..(ArgLen - 1) :
                topk_args.losses[p[x]] <= topk_args.losses[p[x + 1]]
          /\ \A x \in 1..k :
                /\ ret.configs[x] = topk_args.configs[p[x]]
                /\ ret.losses[x] = topk_args.losses[p[x]]

\* C5: for 1 <= k <= len(configs), _top_k returns exactly k pairs, each configuration
\* with its own loss, the losses being the k lowest of a full ascending sort, ascending.
C5_TopKLowest ==
    (Called /\ 1 <= topk_args.k /\ topk_args.k <= ArgLen) =>
        /\ topk_ret.err = "none"
        /\ IsLowestK(topk_ret, topk_args.k)

C5_Witness ==
    /\ Called /\ ArgLen = 3 /\ topk_args.k = 2
    /\ topk_args.losses[1] > topk_args.losses[3]
    /\ topk_args.losses[2] = topk_args.losses[3]
    /\ topk_args.configs[2] > topk_args.configs[3]

-----------------------------------------------------------------------------
(* Properties of the schedule and of the run *)

DemoArgs == R = DemoR /\ eta = Rat(DemoEta, 1)

DemoSchedule ==
    <<<<4, 81, Rat(1, 1)>>, <<3, 34, Rat(3, 1)>>, <<2, 15, Rat(9, 1)>>,
      <<1, 8, Rat(27, 1)>>, <<0, 5, Rat(81, 1)>>>>

Submitted == [b \in Brackets |-> <<futures[b].s, futures[b].n, futures[b].r>>]

\* C7: for R = 81, eta = 3 the schedule is s_max = 4, B = 405, and the brackets are
\* submitted as (4, 81, 1), (3, 34, 3), (2, 15, 9), (1, 8, 27), (0, 5, 81).
C7_DemoSchedule ==
    (DemoArgs /\ phase # "new") =>
        /\ phase # "raised"
        /\ s_max = 4 /\ B = 405
        /\ Len(Submitted) <= 5
        /\ Submitted = SubSeq(DemoSchedule, 1, Len(Submitted))
        /\ (pc = "submit" /\ s < 0) => Submitted = DemoSchedule

C7_Witness == DemoArgs /\ Len(futures) = 5 /\ s < 0

\* the generator ran to its end (run() then returns, or raises for want of a value)
Exhausted ==
    variant = "seq" /\ pc = "closed" /\ (phase = "returned" \/ error = "RuntimeError")

\* each value yielded after the first is the previous one, or the winner of the
\* bracket just completed if that has a strictly lower loss
BestSoFar ==
    \A k \in 1..Len(yielded) :
        IF k = 1 THEN yielded[1] = hist.winners[1]
        ELSE /\ yielded[k].loss <= yielded[k - 1].loss
             /\ yielded[k] \in {yielded[k - 1], hist.winners[k]}
             /\ yielded[k] # yielded[k - 1] => hist.winners[k].loss < yielded[k - 1].loss

\* C8 (as claimed): the generator yields exactly s_max + 1 elements, one after each
\* completed bracket, with non-increasing losses, replaced only by a strictly lower loss.
C8_Claim ==
    variant = "seq" =>
        /\ Len(yielded) = Len(hist.winners)
        /\ Exhausted => Len(yielded) = s_max + 1
        /\ BestSoFar

\* C8 (amended): run to its end, the generator has yielded max(0, s_max + 1) elements
\* (a schedule with s_max < -1 has no bracket and yields nothing); while it runs it has
\* yielded one element per completed bracket and none before; losses are non-increasing
\* and the best-so-far is replaced only by a strictly lower loss.
C8_StepSequence ==
    variant = "seq" =>
        /\ Len(yielded) = Len(hist.winners)
        /\ (phase = "running" /\ s_max >= 0) => Len(yielded) = s_max - s
        /\ pc \in {"rung", "yield"} => Len(yielded) = s_max - s
        /\ Exhausted => Len(yielded) = Max(0, s_max + 1)
        /\ BestSoFar

C8_Witness ==
    /\ Exhausted /\ Len(yielded) = 2
    /\ yielded[2].loss < yielded[1].loss

\* C9: in the distributed variant a bracket passes the gather of a rung only when every
\* evaluation of that rung has returned, the losses culled are those of all the
\* rung's configurations, and evaluation tasks exist and run only while their bracket
\* waits in that gather, with the rung index they were submitted for.
C9_RungBarrier ==
    \A b \in Brackets :
        LET f == futures[b]
        IN  /\ f.pc \in {"rejoin", "cull"} =>
                  /\ Len(f.evals) = Len(f.T) /\ Len(f.L) = Len(f.T)
                  /\ \A j \in 1..Len(f.evals) :
                        f.evals[j].st = "done" /\ f.L[j] = f.evals[j].loss
            /\ f.pc \notin {"gather", "rejoin", "cull"} => f.evals = <<>>
            /\ \A j \in 1..Len(f.evals) :
                  /\ f.evals[j].rung = f.i
                  /\ f.evals[j].st = "running" => f.pc = "gather"

C9_Witness ==
    \E b \in Brackets :
        /\ futures[b].pc = "cull" /\ futures[b].i = 1
        /\ \E c \in Brackets : futures[c].pc = "gather" /\ futures[c].i = 0
                                  /\ Len(futures[c].T) >= 2
                                  /\ futures[c].evals[1].st = "pending"
                                  /\ futures[c].evals[2].st = "done"

TasksComplete == \A b \in Brackets : futures[b].pc \in {"finished", "erred"}

\* C10: under fair scheduling a distributed run on a pool of at least one slot always
\* ends, and every bracket task completes, also with as many brackets as slots or more.
C10_NoDeadlock ==
    (variant = "dist" /\ phase = "ready") ~> (RunEnded /\ s < 0 /\ TasksComplete)

C10_Witness ==
    /\ variant = "dist" /\ Len(futures) >= 2 /\ nthreads = 1
    /\ Cardinality(slots) = nthreads
    /\ \E b \in Brackets : futures[b].pc = "gather"
    /\ \E b \in Brackets : futures[b].pc = "rejoin"

-----------------------------------------------------------------------------
(* Properties of the rungs *)

\* C11: at every rung the losses handed to the cull step are aligned with the
\* configurations: L[j] is the loss the evaluator produced for T[j] (the result of the
\* j-th evaluation task; with the quadratic evaluator, (T[j] - target)^2), whatever
\* the order in which the rung's evaluation tasks complete.
C11_LossesAligned ==
    /\ (variant = "seq" /\ pc = "rung") =>
          /\ Len(L) <= Len(T)
          /\ evaluator = "quad" => \A j \in 1..Len(L) : L[j] = Quad(T[j])
    /\ \A b \in Brackets :
          LET f == futures[b]
          IN  f.pc \in {"rejoin", "cull"} =>
                 /\ Len(f.L) = Len(f.T)
                 /\ \A j \in 1..Len(f.T) :
                       /\ f.L[j] = f.evals[j].loss
                       /\ evaluator = "quad" => f.L[j] = Quad(f.T[j])

C11_Witness ==
    /\ evaluator = "quad"
    /\ \E b \in Brackets :
          /\ futures[b].pc = "cull" /\ futures[b].overtaken
          /\ Len(futures[b].T) >= 2
          /\ futures[b].L[1] # futures[b].L[2]

\* the evaluator is a pure function of its arguments
PureEvaluator == evaluator \in {"quad", "res"}
PureLoss(c, resource) == CHOOSE l \in Loss(evaluator, c, resource) : TRUE

\* the result of one bracket task run on its own, rung after rung
RECURSIVE PureHalving(_, _, _, _, _)
PureHalving(cs, n_, r_, i_, last) ==
    LET ret == top_k(cs, [j \in 1..Len(cs) |-> PureLoss(cs[j], RungR(r_, eta, i_))],
                     SurvivorCount(RungN(n_, eta, i_), eta))
    IN  IF i_ = last THEN Winner(ret.configs, ret.losses)
        ELSE PureHalving(ret.configs, n_, r_, i_ + 1, last)

\* the results of the brackets s_max, ..., 0, each run on its own, in that order
PureResults ==
    [b \in 1..(s_max + 1) |->
        LET n_ == BracketN(B, R, eta, s_max + 1 - b)
        IN  PureHalving(Sample(sampler, n_), n_, BracketR(R, eta, s_max + 1 - b), 0,
                        FloorLog(n_, eta))]

\* C12: in the distributed variant, with a pure sampler and a pure evaluator, run()
\* ends the same way whatever the order in which the bracket tasks and their
\* evaluations start, interleave and complete: it returns the first result of least
\* loss among the results of the brackets taken in submission order (on a tie between
\* bracket winners, the winner of the bracket submitted first); with a sampler that
\* delivers nothing, or a schedule without brackets, it raises ValueError.
C12_OrderIndependent ==
    (variant = "dist" /\ PureEvaluator /\ RunEnded) =>
        IF sampler.kind = "full" /\ s_max >= 0
        THEN phase = "returned" /\ result = MinByLoss(PureResults)
        ELSE phase = "raised" /\ error = "ValueError"

C12_Witness ==
    /\ variant = "dist" /\ PureEvaluator /\ phase = "returned"
    /\ Len(hist.completed) = 2 /\ hist.completed[1] = 2
    /\ futures[1].result.loss = futures[2].result.loss
    /\ futures[1].result.config # futures[2].result.config

\* the rung indices of a bracket (s, n, r): range(s + 1) in step_generator, and
\* range(floor(log(n, eta)) + 1) in successive_halving
SeqRungs(f) == 0..f.s
DistRungs(f) == 0..RungCount(f.n, eta)

RatLeq(a, b) == a.num * b.den <= b.num * a.den

\* C13: for R >= 1 and eta > 1, in every bracket of the schedule and across the rungs
\* that either variant runs, the population sizes n_i = floor(n * eta^-i) are
\* non-increasing in i and the resource levels r_i = r * eta^i are non-decreasing in i.
C13_Monotone ==
    (R >= 1 /\ eta.num > eta.den) =>
        \A b \in Brackets :
            \A i_ \in (SeqRungs(futures[b]) \cup DistRungs(futures[b])) \ {0} :
                /\ RungN(futures[b].n, eta, i_) <= RungN(futures[b].n, eta, i_ - 1)
                /\ RatLeq(RungR(futures[b].r, eta, i_ - 1), RungR(futures[b].r, eta, i_))

C13_Witness ==
    /\ DemoArgs
    /\ \E b \in Brackets :
          /\ futures[b].s >= 2 /\ 2 \in DistRungs(futures[b])
          /\ RungN(futures[b].n, eta, 2) < RungN(futures[b].n, eta, 1)
          /\ RungN(futures[b].n, eta, 1) < futures[b].n
          /\ ~RatLeq(RungR(futures[b].r, eta, 2), RungR(futures[b].r, eta, 1))

\* the brackets of the distributed variant that are inside a rung
InRung(b) == futures[b].pc \in {"loop", "seceded", "gather", "rejoin", "cull"}

\* C14: at every rung of every bracket, in both variants, the survivor count passed to
\* the cull step, k_i = max(1, floor(n_i / eta)), is at least 1, also when n_i < eta
\* (n_i = 2, eta = 3 gives k_i = 1), so that no cull fails the assertion on k.
C14_SurvivorAtLeastOne ==
    /\ (variant = "seq" /\ pc = "rung") => SurvivorCount(RungN(n, eta, i), eta) >= 1
    /\ \A b \in Brackets :
          /\ InRung(b) => SurvivorCount(RungN(futures[b].n, eta, futures[b].i), eta) >= 1
          /\ futures[b].err # "AssertionError"
    /\ error # "AssertionError"

C14_Witness ==
    /\ variant = "seq" /\ pc = "yield" /\ eta = Rat(3, 1)
    /\ RungN(n, eta, i - 1) = 2
    /\ SurvivorCount(RungN(n, eta, i - 1), eta) = 1
    /\ Len(T) = 1

\* a successive_halving task called with n == 1 and given its one configuration
Single(b) == futures[b].n = 1 /\ sampler.kind = "full"

\* C15 (as claimed): successive_halving called with n == 1 calls the evaluator exactly
\* once, does not invoke _top_k, and returns the single sampled configuration.
C15_Claim ==
    \A b \in Brackets :
        (Single(b) /\ futures[b].pc = "finished") =>
            /\ futures[b].evalCalls = 1
            /\ futures[b].topkCalls = 0
            /\ futures[b].result.config = Sample(sampler, 1)[1]

\* C15 (amended): successive_halving called with n == 1 runs one rung; the evaluator is
\* called exactly once, _top_k is invoked exactly once, on the one (configuration,
\* loss) pair, and the task then returns the single sampled configuration with the
\* loss of that one evaluation.
C15_SingleConfig ==
    [][\A b \in Brackets :
          (Single(b) /\ futures[b].pc = "cull" /\ futures'[b].pc # "cull") =>
              /\ futures'[b].pc = "finished"
              /\ futures[b].evalCalls = 1 /\ futures'[b].evalCalls = 1
              /\ futures[b].topkCalls = 0 /\ futures'[b].topkCalls = 1
              /\ futures[b].T = Sample(sampler, 1)
              /\ futures'[b].result =
                     ConfigEvaluation(futures[b].T[1], futures[b].evals[1].loss)]_vars

C15_Witness ==
    \E b \in Brackets :
        /\ Single(b) /\ futures[b].pc = "finished" /\ evaluator = "noisy"
        /\ futures[b].evalCalls = 1 /\ futures[b].topkCalls = 1
        /\ futures[b].result.loss > 0

\* C16 (as claimed): R is the maximum resource allocated to any configuration: every
\* resource level passed to the evaluator, in both variants, is at most R, and the
\* last rung of each bracket evaluates at exactly R.
C16_Claim ==
    /\ \A x \in hist.resources : RatLeq(x, Rat(R, 1))
    /\ (variant = "seq" /\ pc = "yield") => RungR(r, eta, i - 1) = Rat(R, 1)
    /\ \A b \in Brackets :
          futures[b].pc = "finished" => RungR(futures[b].r, eta, futures[b].i) = Rat(R, 1)

\* C17 (as claimed): for R >= 1 and eta > 1, for every bracket (s, n, r) the rung count
\* of the distributed executor, floor(log_eta(n)) + 1, equals the rung count s + 1 of
\* the sequential variant, so that both run the same rungs for that bracket.
C17_Claim ==
    (R >= 1 /\ eta.num > eta.den) =>
        \A b \in Brackets :
            /\ RungCount(futures[b].n, eta) + 1 = futures[b].s + 1
            /\ DistRungs(futures[b]) = SeqRungs(futures[b])

Ascending(ls) == \A j \in 1..(Len(ls) - 1) : ls[j] <= ls[j + 1]

\* the sequential generator has yielded after its latest bracket and not sampled anew
AfterYield ==
    variant = "seq" /\ pc \in {"bracket", "closed"} /\ yielded # <<>> /\ phase # "raised"

\* C18 (as claimed): for R >= 1 and eta > 1, after the final rung of every bracket
\* exactly one configuration survives the cull, and it is the bracket's result.
C18_Claim ==
    (R >= 1 /\ eta.num > eta.den) =>
        /\ (variant = "seq" /\ pc = "yield") => Len(T) = 1
        /\ AfterYield =>
              Len(T) = 1 /\ hist.winners[Len(hist.winners)] = ConfigEvaluation(T[1], losses[1])
        /\ \A b \in Brackets :
              futures[b].pc = "finished" =>
                  /\ Len(futures[b].T) = 1
                  /\ futures[b].result =
                         ConfigEvaluation(futures[b].T[1], futures[b].losses[1])

\* C18 (amended): for R >= 1 and eta > 1, after the final rung of every bracket at least
\* one configuration survives the cull, the survivors are in ascending order of loss,
\* and the bracket's result is the first survivor with its loss; in the distributed
\* variant exactly one configuration survives, in the sequential variant there may be
\* more than one.
C18_FinalSurvivors ==
    (R >= 1 /\ eta.num > eta.den) =>
        /\ (variant = "seq" /\ pc = "yield") =>
              Len(T) >= 1 /\ Len(losses) = Len(T) /\ Ascending(losses)
        /\ AfterYield =>
              /\ Len(T) >= 1 /\ Len(losses) = Len(T) /\ Ascending(losses)
              /\ hist.winners[Len(hist.winners)] = ConfigEvaluation(T[1], losses[1])
        /\ \A b \in Brackets :
              futures[b].pc = "finished" =>
                  /\ Len(futures[b].T) = 1 /\ Len(futures[b].losses) = 1
                  /\ futures[b].result =
                         ConfigEvaluation(futures[b].T[1], futures[b].losses[1])

C18_Witness ==
    /\ AfterYield /\ R >= 1 /\ eta.num > eta.den
    /\ Len(T) = 2 /\ losses[1] < losses[2]
    /\ hist.winners[Len(hist.winners)] = ConfigEvaluation(T[1], losses[1])

IntegerEta == eta.den = 1 /\ eta.num > 1

\* len(T) at rung i of a bracket whose sampler returned n configurations: each cull
\* keeps min(k, len(T)) of them
RECURSIVE Population(_, _)
Population(n_, i_) ==
    IF i_ = 0 THEN n_
    ELSE Min(SurvivorCount(RungN(n_, eta, i_ - 1), eta), Population(n_, i_ - 1))

\* C19 (as claimed): when the sampler returns exactly n configurations and eta is an
\* integer greater than 1, the number of configurations evaluated at rung i of a
\* bracket is floor(n * eta^-i) for every rung that either variant runs, and every
\* call of _top_k has 1 <= k_i <= len(T).
C19_Claim ==
    IntegerEta =>
        \A b \in Brackets :
            \A i_ \in SeqRungs(futures[b]) \cup DistRungs(futures[b]) :
                /\ Population(futures[b].n, i_) = ExactRungN(futures[b].n, eta, i_)
                /\ 1 <= SurvivorCount(RungN(futures[b].n, eta, i_), eta)
                /\ SurvivorCount(RungN(futures[b].n, eta, i_), eta)
                       <= Population(futures[b].n, i_)

-----------------------------------------------------------------------------
(* Properties of the worker pool *)

HoldsSlot(b) == <<b, 0>> \in slots

\* C20: in every reachable state of the distributed variant, a bracket task that has
\* seceded and is submitting or waiting for its rung's evaluation tasks (or waiting to
\* rejoin) holds no worker slot, a bracket task holds a slot while it runs the loop
\* and the cull step, an evaluation task holds a slot exactly while it runs, and the
\* number of tasks holding a slot never exceeds the pool size.
C20_SlotDiscipline ==
    /\ Cardinality(slots) <= nthreads
    /\ \A b \in Brackets :
          /\ futures[b].pc \in {"seceded", "gather", "rejoin"} => ~HoldsSlot(b)
          /\ futures[b].pc \in {"loop", "cull"} => HoldsSlot(b)
          /\ futures[b].pc \in {"pending", "finished", "erred"} => ~HoldsSlot(b)
          /\ \A j \in Evals(b) :
                <<b, j>> \in slots <=> futures[b].evals[j].st = "running"

C20_Witness ==
    /\ nthreads = 1 /\ Cardinality(slots) = 1
    /\ \E b \in Brackets : futures[b].pc = "cull" /\ HoldsSlot(b)
    /\ \E c \in Brackets :
          /\ futures[c].pc = "gather" /\ ~HoldsSlot(c)
          /\ \E j \in Evals(c) : futures[c].evals[j].st = "pending"

====
